---- MODULE Spec2Model ----
(***************************************************************************)
(* Model of appCRM.py: the Streamlit portfolio-update application over two *)
(* Supabase tables (companies, company_updates).  One action is one script *)
(* run of the page, triggered by one user event.  Text is a sequence of    *)
(* one-character strings, a date is its day ordinal, a timedelta a number  *)
(* of days.                                                                *)
(***************************************************************************)
EXTENDS Integers, Sequences, FiniteSets, TLC

VARIABLES
    companies,        \* rows of the Supabase table "companies"
    company_updates,  \* rows of the Supabase table "company_updates"
    session_state,    \* st.session_state: the confirmation keys that are set
    today,            \* date.today(), as a day ordinal; the first run is on day 1
    uuid_calls,       \* number of uuid.uuid4() calls made so far
    run,              \* the script run that produced this state
    pdf               \* the last PDF export: its update, document and file name

vars == <<companies, company_updates, session_state, today, uuid_calls, run, pdf>>

(***************************************************************************)
(* Bounds of the model                                                     *)
(***************************************************************************)
MaxUuid == 5          \* uuid.uuid4() calls explored
MaxCompanies == 2     \* rows of "companies" explored
MaxUpdates == 2       \* rows of "company_updates" explored
MaxDay == 1           \* days that pass while the application is used
MaxProvisioned == 2   \* rows of "companies" that exist before the first run
MaxVaried == 2        \* fields of an exported update that differ from the plain one

(***************************************************************************)
(* Text                                                                    *)
(***************************************************************************)
Whitespace == {" ", "\t", "\n", "\r", "\f", "nbsp"}

RECURSIVE lstrip(_)
lstrip(s) ==
    IF s = <<>> THEN s
    ELSE IF Head(s) \in Whitespace THEN lstrip(Tail(s)) ELSE s

RECURSIVE rstrip(_)
rstrip(s) ==
    IF s = <<>> THEN s
    ELSE IF s[Len(s)] \in Whitespace THEN rstrip(SubSeq(s, 1, Len(s) - 1)) ELSE s

\* str.strip() without the whitespace removal
strip_identity(s) == s

\* str.strip()
strip(s) == rstrip(lstrip(s))

\* Python truthiness of a str
truthy(s) == s # <<>>

(***************************************************************************)
(* Dates as they cross the store: str(date), pd.to_datetime, .date()       *)
(***************************************************************************)
\* str(d) of a datetime.date: the ISO text of the day
str_date(d) == <<"iso", d>>

\* a null cell and a cell holding text that is no date
NULL == <<"null", 0>>
Unparsable == <<"text", 0>>

NaT == <<"NaT", 0>>
None == <<"None", 0>>

\* pd.to_datetime(cell, errors="coerce")
to_datetime(cell) == IF cell[1] = "iso" THEN <<"ts", cell[2]>> ELSE NaT

\* pd.notna
notna(ts) == ts # NaT

(***************************************************************************)
(* Business logic helpers                                                  *)
(***************************************************************************)
\* cadence_to_delta with the default of the first entry
cadence_to_delta_weekly_default(cadence) ==
    CASE cadence = "Weekly" -> 7
      [] cadence = "Biweekly" -> 14
      [] cadence = "Monthly" -> 30
      [] cadence = "Quarterly" -> 90
      [] OTHER -> 7

cadence_to_delta(cadence) ==
    CASE cadence = "Weekly" -> 7
      [] cadence = "Biweekly" -> 14
      [] cadence = "Monthly" -> 30
      [] cadence = "Quarterly" -> 90
      [] OTHER -> 30

\* next_due_from_today without the cadence offset
next_due_from_today_no_offset(cadence) == today

next_due_from_today(cadence) == today + cadence_to_delta(cadence)

\* _due_status with the upcoming window one day short
due_status_short_window(due_date, t) ==
    IF due_date = None THEN "unknown"
    ELSE LET diff == due_date[2] - t IN
         IF diff < 0 THEN "overdue"
         ELSE IF diff < 7 THEN "upcoming"
         ELSE "on-track"

\* _due_status(due_date, today); due_date is None or <<"date", ordinal>>
due_status(due_date, t) ==
    IF due_date = None THEN "unknown"
    ELSE LET diff == due_date[2] - t IN
         IF diff < 0 THEN "overdue"
         ELSE IF diff <= 7 THEN "upcoming"
         ELSE "on-track"

\* _status_html: the label of the badge
status_html(status) ==
    CASE status = "overdue" -> "Overdue"
      [] status = "upcoming" -> "Due Soon"
      [] status = "on-track" -> "On Track"
      [] status = "unknown" -> "No Date"
      [] OTHER -> status

(***************************************************************************)
(* Supabase data layer                                                     *)
(***************************************************************************)
\* load_companies: the rows with next_due_date coerced to a timestamp
load_companies ==
    { [c EXCEPT !.next_due_date = to_datetime(c.next_due_date)] : c \in companies }

\* load_updates with .limit(1): the row inserted first only
load_updates_limit_1 ==
    { [u EXCEPT !.submission_date = to_datetime(u.submission_date)] :
        u \in {v \in company_updates : \A w \in company_updates : v.update_id <= w.update_id} }

\* load_updates
load_updates ==
    { [u EXCEPT !.submission_date = to_datetime(u.submission_date)] : u \in company_updates }

\* add_company(row)
add_company(row) == companies \cup {row}

\* add_update that replaces the company's previous update
add_update_replacing(row) ==
    {u \in company_updates : u.company_id # row.company_id} \cup {row}

\* add_update(row)
add_update(row) == company_updates \cup {row}

\* update_company_due_date that filters on a column no company_id matches
update_company_due_date_wrong_column(company_id, next_due) ==
    { IF c.access_token = company_id THEN [c EXCEPT !.next_due_date = next_due] ELSE c
      : c \in companies }

\* update_company_due_date that ignores the company_id filter
update_company_due_date_unfiltered(company_id, next_due) ==
    { [c EXCEPT !.next_due_date = next_due] : c \in companies }

\* update_company_due_date(company_id, next_due)
update_company_due_date(company_id, next_due) ==
    { IF c.company_id = company_id THEN [c EXCEPT !.next_due_date = next_due] ELSE c
      : c \in companies }

\* delete_company without the company_id filter
delete_company_unfiltered(company_id) == {c \in companies : FALSE}

\* delete_company(company_id): the rows of "companies" that remain
delete_company(company_id) == {c \in companies : c.company_id # company_id}

\* the foreign key of company_updates.company_id: rows that remain after the
\* company row is deleted
on_delete_cascade(company_id) == {u \in company_updates : u.company_id # company_id}

\* delete_update that removes the updates of the same company
delete_update_by_company(update_id) ==
    {u \in company_updates :
        \A v \in company_updates : v.update_id = update_id => u.company_id # v.company_id}

\* delete_update(update_id): the rows of "company_updates" that remain
delete_update(update_id) == {u \in company_updates : u.update_id # update_id}

\* uuid4 that returns the same value on every call
uuid4_repeating(n) == 1

\* uuid.uuid4().hex: a value no earlier call returned; n calls were made before
uuid4(n) == n + 1

(***************************************************************************)
(* Page: what every script run computes from the loaded tables             *)
(***************************************************************************)
companies_df == load_companies
updates_df == load_updates

\* overdue_count of the sidebar and of the "Updates Overdue" metric; a NaT
\* cell compares False
overdue_count ==
    Cardinality({row \in companies_df :
        notna(row.next_due_date) /\ row.next_due_date[2] <= today})

\* due_date of the bucket loop of the Reminders tab
bucket_due_date(row) ==
    IF notna(row.next_due_date) THEN <<"date", row.next_due_date[2]>> ELSE None

\* due_date of the display loop of the Reminders tab
display_due_date(row) ==
    IF notna(row.next_due_date) THEN <<"date", row.next_due_date[2]>> ELSE <<"date", today>>

overdue_list == {row \in companies_df : due_status(bucket_due_date(row), today) = "overdue"}
upcoming_list == {row \in companies_df : due_status(bucket_due_date(row), today) = "upcoming"}
on_track_list ==
    {row \in companies_df :
        due_status(bucket_due_date(row), today) \notin {"overdue", "upcoming"}}

\* status_label of the row's expander in the Reminders tab
status_label(row) == status_html(due_status(display_due_date(row), today))

\* company_lookup that returns a row whatever its company_name
company_lookup_any_row(selected_company) == companies_df

\* company_lookup[selected_company]: the dict keeps one row per company name
company_lookup(selected_company) ==
    {row \in companies_df : row.company_name = selected_company}

(***************************************************************************)
(* Inputs                                                                  *)
(***************************************************************************)
Cadences == {"Weekly", "Biweekly", "Monthly", "Quarterly"}
\* the options of the "Reporting Cadence" selectbox that the model picks
CadenceChoices == {"Weekly", "Monthly"}
\* what the user typed into "Company Name", "Founder / Primary Contact" and
\* "Contact Email"
OnboardInputs ==
    { [company_name |-> <<" ", "A", " ">>, contact_name |-> <<"J">>, contact_email |-> <<"e">>],
      [company_name |-> <<"B">>, contact_name |-> <<"J", " ">>, contact_email |-> <<"e">>],
      [company_name |-> <<" ">>, contact_name |-> <<"J">>, contact_email |-> <<"e">>],
      [company_name |-> <<"A">>, contact_name |-> <<>>, contact_email |-> <<"e">>],
      [company_name |-> <<"A">>, contact_name |-> <<"J">>, contact_email |-> <<"\t", " ">>] }
\* what the user typed into "Reporting Period" and "Submitted By"
SubmitInputs ==
    { [reporting_period |-> <<"Q", " ">>, submitted_by |-> <<" ", "J">>],
      [reporting_period |-> <<" ">>, submitted_by |-> <<"J">>],
      [reporting_period |-> <<"Q">>, submitted_by |-> <<>>] }

\* the remaining widgets of the Submit Update tab
UpdateForms ==
    { [revenue |-> <<"1">>, expenses |-> <<>>, cash |-> <<" ", "3">>, runway_months |-> 6,
       wins |-> <<"w", " ">>, challenges |-> <<>>, asks |-> <<" ">>,
       investment_update |-> <<"i">>, narrative |-> <<"n", "\n">>,
       meeting_agenda |-> <<>>, meeting_minutes |-> <<"m">>,
       data_warehouse_link |-> <<"h">>] }

\* the store operations of a handler that may raise
Raises == {"nothing", "first", "second"}

\* the script run that produced a state: the handler that ran, the required
\* fields as typed, the company_id or update_id it was about, how it ended
Run(handler, input, arg, outcome) ==
    [handler |-> handler, input |-> input, arg |-> arg, outcome |-> outcome]

NoRun == Run("none", <<>>, 0, "none")

confirm_del_company(cid) == <<"confirm_del_company", cid>>
confirm_del_update(uid) == <<"confirm_del_update", uid>>

(***************************************************************************)
(* PDF generation: characters.  "nbsp", "eacute" and "Lstroke" stand for   *)
(* U+00A0, U+00E9 and U+0141.                                              *)
(***************************************************************************)
\* ord(ch) of the characters that occur in the model
ord(ch) ==
    CASE ch = "\t" -> 9 [] ch = "\n" -> 10 [] ch = "\f" -> 12 [] ch = "\r" -> 13
      [] ch = " " -> 32 [] ch = "'" -> 39 [] ch = "-" -> 45 [] ch = "/" -> 47
      [] ch = "0" -> 48 [] ch = "1" -> 49 [] ch = "2" -> 50 [] ch = "3" -> 51
      [] ch = "4" -> 52 [] ch = "5" -> 53 [] ch = "6" -> 54 [] ch = "7" -> 55
      [] ch = "8" -> 56 [] ch = "9" -> 57 [] ch = "?" -> 63
      [] ch = "A" -> 65 [] ch = "B" -> 66 [] ch = "J" -> 74 [] ch = "N" -> 78
      [] ch = "P" -> 80 [] ch = "Q" -> 81 [] ch = "T" -> 84 [] ch = "_" -> 95
      [] ch = "a" -> 97 [] ch = "b" -> 98 [] ch = "c" -> 99 [] ch = "d" -> 100
      [] ch = "e" -> 101 [] ch = "g" -> 103
      [] ch = "h" -> 104 [] ch = "i" -> 105 [] ch = "m" -> 109 [] ch = "n" -> 110
      [] ch = "o" -> 111 [] ch = "p" -> 112 [] ch = "s" -> 115 [] ch = "t" -> 116 [] ch = "w" -> 119
      [] ch = "x" -> 120 [] ch = "y" -> 121
      [] ch = "nbsp" -> 160 [] ch = "eacute" -> 233 [] ch = "Lstroke" -> 321

\* the characters of the class [A-Za-z0-9]
ascii_alnum(ch) == ord(ch) \in (48..57) \cup (65..90) \cup (97..122)

\* str.isalnum() of one character: letters and digits of any script
isalnum(ch) == ascii_alnum(ch) \/ ch \in {"eacute", "Lstroke"}

Digit == <<"0", "1", "2", "3", "4", "5", "6", "7", "8", "9">>

\* str(n) of a natural number
RECURSIVE str_int(_)
str_int(n) ==
    IF n < 10 THEN <<Digit[n + 1]>>
    ELSE str_int(n \div 10) \o <<Digit[(n % 10) + 1]>>

\* str.replace("\r\n", "\n")
RECURSIVE replace_crlf(_)
replace_crlf(s) ==
    IF s = <<>> THEN s
    ELSE IF Len(s) >= 2 /\ s[1] = "\r" /\ s[2] = "\n"
         THEN <<"\n">> \o replace_crlf(SubSeq(s, 3, Len(s)))
         ELSE <<Head(s)>> \o replace_crlf(Tail(s))

\* str.replace(old, new) of one character by another
replace(s, old, new) == [i \in 1..Len(s) |-> IF s[i] = old THEN new ELSE s[i]]

\* value is None
is_none(value) == Len(value) = 2 /\ value[1] = "None"

\* _normalize_pdf_text
normalize_pdf_text(value) ==
    LET text == IF is_none(value) THEN <<"-">> ELSE value
        lines == replace(replace_crlf(text), "\r", "\n")
        spaced == replace(replace(lines, "\t", " "), "nbsp", " ")
        keep(ch) == ch = "\n" \/ ord(ch) >= 32
        kept == SelectSeq(spaced, keep)
    IN IF truthy(kept) THEN kept ELSE <<"-">>

\* str.strip("_")
RECURSIVE strip_underscores(_)
strip_underscores(s) ==
    IF s = <<>> THEN s
    ELSE IF Head(s) = "_" THEN strip_underscores(Tail(s))
    ELSE IF s[Len(s)] = "_" THEN strip_underscores(SubSeq(s, 1, Len(s) - 1))
    ELSE s

\* _safe_pdf_slug
safe_pdf_slug(raw) ==
    LET mapped == [i \in 1..Len(raw) |->
                     IF isalnum(raw[i]) \/ raw[i] \in {"-", "_"} THEN raw[i] ELSE "_"]
        stripped == strip_underscores(mapped)
    IN IF truthy(stripped) THEN stripped ELSE <<"c", "o", "m", "p", "a", "n", "y">>

\* _format_date: "N/A", the formatted day, or the text as it is
format_date(raw) ==
    CASE raw = None \/ raw = NULL -> <<"N", "/", "A">>
      [] raw[1] \in {"iso", "ts"} -> <<"d", "a", "y", " ">> \o str_int(raw[2])
      [] raw = NaT -> <<"N", "a", "T">>
      [] OTHER -> <<"t", "e", "x", "t">>

\* str.encode("ascii", "replace").decode("ascii")
ascii_replace(text) == [i \in 1..Len(text) |-> IF ord(text[i]) > 127 THEN "?" ELSE text[i]]

(***************************************************************************)
(* PDF generation: the document is the sequence of cells laid out so far;  *)
(* raised tells that an FPDFException is propagating.                      *)
(***************************************************************************)
PdfStart == [raised |-> FALSE, doc |-> <<>>]

\* FPDF.normalize_text with a core font: the text must encode as latin-1
can_encode(text) == \A i \in 1..Len(text) : ord(text[i]) <= 255

\* one FPDF.cell / multi_cell call whose text is made of the given fields
cell(r, entries) ==
    IF r.raised THEN r
    ELSE IF \A i \in 1..Len(entries) : can_encode(entries[i].text)
         THEN [raised |-> FALSE, doc |-> r.doc \o entries]
         ELSE [raised |-> TRUE, doc |-> r.doc]

value_cell(field, text) == [kind |-> "value", field |-> field, text |-> text]

\* a cell whose text is a literal of the program
literal_cell(r, kind, field, literal) ==
    IF r.raised THEN r
    ELSE [raised |-> FALSE,
          doc |-> Append(r.doc, [kind |-> kind, field |-> field, text |-> literal])]

\* UpdatePDF._section_heading
section_heading(r, title) == literal_cell(r, "heading", title, title)

\* UpdatePDF._info_row
info_row(r, label, field, value) ==
    cell(literal_cell(r, "label", field, label),
         <<value_cell(field, normalize_pdf_text(value))>>)

RECURSIVE info_rows(_, _)
info_rows(r, rows) ==
    IF rows = <<>> THEN r
    ELSE info_rows(info_row(r, Head(rows)[1], Head(rows)[2], Head(rows)[3]), Tail(rows))

\* UpdatePDF._kpi_table
RECURSIVE kpi_table(_, _)
kpi_table(r, rows) ==
    IF rows = <<>> THEN r
    ELSE kpi_table(
             cell(literal_cell(r, "label", Head(rows)[2], Head(rows)[1]),
                  <<value_cell(Head(rows)[2],
                               <<" ", " ">> \o normalize_pdf_text(Head(rows)[3]))>>),
             Tail(rows))

\* UpdatePDF._text_block that lays out the placeholder too
text_block_with_placeholder(r, label, field, value) ==
    LET safe == normalize_pdf_text(value)
    IN cell(literal_cell(r, "label", field, label), <<value_cell(field, safe)>>)

\* UpdatePDF._text_block
text_block(r, label, field, value) ==
    LET safe == normalize_pdf_text(value)
    IN IF ~truthy(safe) \/ safe = <<"-">> THEN r
       ELSE cell(literal_cell(r, "label", field, label), <<value_cell(field, safe)>>)

\* try: _text_block(label, val)  except FPDFException: the ASCII transliteration
text_block_or_ascii(r, label, field, value) ==
    LET t == text_block(r, label, field, value)
    IN IF t.raised /\ ~r.raised
       THEN text_block([raised |-> FALSE, doc |-> t.doc], label, field,
                       ascii_replace(normalize_pdf_text(value)))
       ELSE t

\* progress_fields in another order
progress_fields_asks_first ==
    << <<"Asks from Investors", "asks">>, <<"Wins & Highlights", "wins">>,
       <<"Challenges & Risks", "challenges">>, <<"Investment Update", "investment_update">> >>

\* progress_fields of generate_pdf_bytes
progress_fields ==
    << <<"Wins & Highlights", "wins">>, <<"Challenges & Risks", "challenges">>,
       <<"Asks from Investors", "asks">>, <<"Investment Update", "investment_update">> >>

RECURSIVE progress_blocks(_, _, _)
progress_blocks(r, update_data, fields) ==
    IF fields = <<>> THEN r
    ELSE progress_blocks(
             text_block_or_ascii(r, Head(fields)[1], Head(fields)[2],
                                 update_data[Head(fields)[2]]),
             update_data, Tail(fields))

\* the test of has_progress, has_meetings and of the narrative
provided(value) == normalize_pdf_text(value) \notin {<<>>, <<"-">>}

\* the report title block
title_block(r, update_data) ==
    cell(cell(r, <<value_cell("company_name",
                              normalize_pdf_text(update_data.company_name))>>),
         <<value_cell("reporting_period",
                      normalize_pdf_text(update_data.reporting_period)),
           value_cell("submission_date", format_date(update_data.submission_date)),
           value_cell("submitted_by", normalize_pdf_text(update_data.submitted_by))>>)

\* kpi_rows of generate_pdf_bytes
kpi_rows(update_data) ==
    << <<"Revenue", "revenue", update_data.revenue>>,
       <<"Expenses", "expenses", update_data.expenses>>,
       <<"Cash on Hand", "cash", update_data.cash>>,
       <<"Runway", "runway_months",
         str_int(update_data.runway_months) \o <<" ", "m", "o", "n", "t", "h", "s">> >> >>

\* Financial Summary: try _kpi_table except FPDFException: _info_row of every row
kpi_block(r, update_data) ==
    LET kpi_heading == section_heading(r, "Financial Summary")
        kpi_try == kpi_table(kpi_heading, kpi_rows(update_data))
    IN IF kpi_try.raised /\ ~kpi_heading.raised
       THEN info_rows([raised |-> FALSE, doc |-> kpi_try.doc], kpi_rows(update_data))
       ELSE kpi_try

\* Progress & Challenges
progress_block(r, update_data) ==
    IF \E i \in 1..Len(progress_fields) : provided(update_data[progress_fields[i][2]])
    THEN progress_blocks(section_heading(r, "Progress & Challenges"),
                         update_data, progress_fields)
    ELSE r

\* Narrative
narrative_block(r, update_data) ==
    IF provided(update_data.narrative)
    THEN text_block_or_ascii(section_heading(r, "Investor Narrative"),
                             "", "narrative", update_data.narrative)
    ELSE r

\* Meetings: try agenda and minutes except FPDFException: pass
meetings_block(r, update_data) ==
    LET meetings_heading == section_heading(r, "Meetings")
        meetings_try == text_block(
                            text_block(meetings_heading, "Agenda", "meeting_agenda",
                                       update_data.meeting_agenda),
                            "Minutes", "meeting_minutes", update_data.meeting_minutes)
    IN IF ~(provided(update_data.meeting_agenda) \/ provided(update_data.meeting_minutes))
       THEN r
       ELSE IF meetings_try.raised /\ ~meetings_heading.raised
            THEN [raised |-> FALSE, doc |-> meetings_try.doc]
            ELSE meetings_try

\* Data link (only if provided)
link_block(r, update_data) ==
    LET link == strip(update_data.data_warehouse_link)
    IN IF truthy(link) /\ link # <<"-">>
       THEN cell(literal_cell(r, "label", "data_warehouse_link", "Data Link"),
                 <<value_cell("data_warehouse_link", link)>>)
       ELSE r

\* generate_pdf_bytes: the cells of the document, or the exception
generate_pdf_bytes(update_data) ==
    link_block(
        meetings_block(
            narrative_block(
                progress_block(
                    kpi_block(title_block(PdfStart, update_data), update_data),
                    update_data),
                update_data),
            update_data),
        update_data)

\* the export of one update: the document and the name of the file
download_pdf(update_data) ==
    LET result == generate_pdf_bytes(update_data)
        slug == safe_pdf_slug(update_data.company_name)
    IN [update_data |-> update_data,
        outcome |-> IF result.raised THEN "raised" ELSE "returned",
        doc |-> result.doc,
        file_name |-> <<"update_", slug, "_", str_date(today), ".pdf">>]

\* no export yet
NoPdf == [update_data |-> <<>>, outcome |-> "none", doc |-> <<>>, file_name |-> <<>>]

(***************************************************************************)
(* Initial states                                                          *)
(***************************************************************************)
\* the empty store of a new deployment
Init ==
    /\ companies = {}
    /\ company_updates = {}
    /\ session_state = {}
    /\ today = 1
    /\ uuid_calls = 0
    /\ run = NoRun
    /\ pdf = NoPdf

\* a store that holds companies before the first run: rows written by earlier
\* use, or edited in the Supabase console, whose next_due_date may be null or
\* no date and whose reporting_cadence may be none of the four options
provisioned_id(i) == uuid4(2 * i - 1)

\* the cells of row i that the model varies
ProvisionedDueDates(i) ==
    IF i = 1 THEN {NULL, str_date(9)} ELSE {Unparsable, str_date(1)}
provisioned_cadence(i) == IF i = 1 THEN "Weekly" ELSE "Annual"

provisioned_row(i, due) ==
    [company_id |-> provisioned_id(i),
     company_name |-> IF i = 1 THEN <<"A">> ELSE <<"B">>,
     contact_name |-> <<"J">>,
     contact_email |-> <<"e">>,
     portfolio_manager |-> <<"P">>,
     fund |-> <<>>,
     reporting_cadence |-> provisioned_cadence(i),
     next_due_date |-> due,
     access_token |-> uuid4(2 * i - 2),
     is_active |-> TRUE]

InitProvisioned ==
    /\ \E n \in 1..MaxProvisioned :
       /\ uuid_calls = 2 * n
       /\ \E due \in [1..n -> UNION {ProvisionedDueDates(i) : i \in 1..n}] :
          /\ \A i \in 1..n : due[i] \in ProvisionedDueDates(i)
          /\ companies = {provisioned_row(i, due[i]) : i \in 1..n}
    /\ company_updates = {}
    /\ session_state = {}
    /\ today = 1
    /\ run = NoRun
    /\ pdf = NoPdf

(***************************************************************************)
(* TAB 1: Onboard Companies                                                *)
(***************************************************************************)
\* the row of the onboard handler; "Portfolio Manager" and "Investment Fund"
\* are typed the same way in every run
company_row(token, company_id, company_name, contact_name, contact_email, cadence) ==
    LET portfolio_manager == <<"P", " ">>
        fund == <<>>
    IN [company_id |-> company_id,
        company_name |-> strip(company_name),
        contact_name |-> strip(contact_name),
        contact_email |-> strip(contact_email),
        portfolio_manager |-> strip(portfolio_manager),
        fund |-> strip(fund),
        reporting_cadence |-> cadence,
        next_due_date |-> str_date(next_due_from_today(cadence)),
        access_token |-> token,
        is_active |-> TRUE]

Onboard(company_name, contact_name, contact_email, cadence, raises) ==
    LET row == company_row(uuid4(uuid_calls), uuid4(uuid_calls + 1),
                           company_name, contact_name, contact_email, cadence)
        input == <<company_name, contact_name, contact_email>>
    IN
    IF ~truthy(strip(company_name)) \/ ~truthy(strip(contact_name))
           \/ ~truthy(strip(contact_email))
    THEN /\ raises = "nothing"
         /\ run' = Run("onboard", input, 0, "st.error")
         /\ UNCHANGED <<companies, company_updates, session_state, today, uuid_calls, pdf>>
    ELSE /\ raises \in {"nothing", "first"}
         /\ Cardinality(companies) < MaxCompanies
         /\ uuid_calls + 2 <= MaxUuid
         /\ uuid_calls' = uuid_calls + 2
         /\ IF raises = "first"
            THEN /\ companies' = companies
                 /\ run' = Run("onboard", input, row.company_id, "raised")
            ELSE /\ companies' = add_company(row)
                 /\ run' = Run("onboard", input, row.company_id, "ok")
         /\ UNCHANGED <<company_updates, session_state, today, pdf>>

\* "Delete company" that deletes on the first click
ClickDeleteCompany_without_confirmation(cid) ==
    /\ \E row \in companies_df : row.company_id = cid
    /\ confirm_del_company(cid) \notin session_state
    /\ companies' = delete_company(cid)
    /\ company_updates' = on_delete_cascade(cid)
    /\ run' = Run("click_delete_company", <<>>, cid, "ok")
    /\ UNCHANGED <<session_state, today, uuid_calls, pdf>>

\* "Delete company": the first click sets the confirmation key
ClickDeleteCompany(cid) ==
    /\ \E row \in companies_df : row.company_id = cid
    /\ confirm_del_company(cid) \notin session_state
    /\ session_state' = session_state \cup {confirm_del_company(cid)}
    /\ run' = Run("click_delete_company", <<>>, cid, "ok")
    /\ UNCHANGED <<companies, company_updates, today, uuid_calls, pdf>>

\* "Yes, delete"
YesDeleteCompany(cid, raises) ==
    /\ \E row \in companies_df : row.company_id = cid
    /\ confirm_del_company(cid) \in session_state
    /\ raises \in {"nothing", "first"}
    /\ IF raises = "first"
       THEN /\ run' = Run("yes_delete_company", <<>>, cid, "raised")
            /\ UNCHANGED <<companies, company_updates, session_state>>
       ELSE /\ companies' = delete_company(cid)
            /\ company_updates' = on_delete_cascade(cid)
            /\ session_state' = session_state \ {confirm_del_company(cid)}
            /\ run' = Run("yes_delete_company", <<>>, cid, "ok")
    /\ UNCHANGED <<today, uuid_calls, pdf>>

\* "Cancel"
CancelDeleteCompany(cid) ==
    /\ \E row \in companies_df : row.company_id = cid
    /\ confirm_del_company(cid) \in session_state
    /\ session_state' = session_state \ {confirm_del_company(cid)}
    /\ run' = Run("cancel_delete_company", <<>>, cid, "ok")
    /\ UNCHANGED <<companies, company_updates, today, uuid_calls, pdf>>

(***************************************************************************)
(* TAB 2: Submit Update                                                    *)
(***************************************************************************)
\* the payload of the submit_update handler
update_payload(update_id, company_id, selected_company, reporting_period, submitted_by, form) ==
    [update_id |-> update_id,
     submission_date |-> str_date(today),
     company_id |-> company_id,
     company_name |-> selected_company,
     reporting_period |-> strip(reporting_period),
     revenue |-> strip(form.revenue),
     expenses |-> strip(form.expenses),
     cash |-> strip(form.cash),
     runway_months |-> form.runway_months,
     wins |-> strip(form.wins),
     challenges |-> strip(form.challenges),
     asks |-> strip(form.asks),
     investment_update |-> strip(form.investment_update),
     narrative |-> strip(form.narrative),
     meeting_agenda |-> strip(form.meeting_agenda),
     meeting_minutes |-> strip(form.meeting_minutes),
     data_warehouse_link |-> strip(form.data_warehouse_link),
     submitted_by |-> strip(submitted_by)]

\* the store writes of the handler when a failed insert is passed over
submit_update_writes_unguarded(payload, company_id, next_due, raises) ==
    CASE raises = "first" ->
           [company_updates |-> company_updates,
            companies |-> update_company_due_date(company_id, next_due),
            outcome |-> "raised"]
      [] raises = "second" ->
           [company_updates |-> add_update(payload), companies |-> companies,
            outcome |-> "raised"]
      [] OTHER ->
           [company_updates |-> add_update(payload),
            companies |-> update_company_due_date(company_id, next_due),
            outcome |-> "ok"]

\* the store writes of the handler, add_update then update_company_due_date:
\* the tables they leave and how the run ends when the first or the second
\* of them raises
submit_update_writes(payload, company_id, next_due, raises) ==
    CASE raises = "first" ->
           [company_updates |-> company_updates, companies |-> companies,
            outcome |-> "raised"]
      [] raises = "second" ->
           [company_updates |-> add_update(payload), companies |-> companies,
            outcome |-> "raised"]
      [] OTHER ->
           [company_updates |-> add_update(payload),
            companies |-> update_company_due_date(company_id, next_due),
            outcome |-> "ok"]

\* the "Download PDF Report" button of the Submit Update tab at the end of one
\* script run: it is rendered inside "if submit_update:", after the writes
submit_tab_download(submit_update, outcome, payload) ==
    IF submit_update /\ outcome = "ok" THEN download_pdf(payload) ELSE NoPdf

\* the handler ends a successful run with st.rerun(): the page the user is
\* left with is that of the next script run, in which st.button returns False
SubmitUpdate(selected_company, reporting_period, submitted_by, form, raises) ==
    /\ companies_df # {}
    /\ \E looked_up \in company_lookup(selected_company) :
        LET payload == update_payload(uuid4(uuid_calls), looked_up.company_id,
                                      selected_company, reporting_period,
                                      submitted_by, form)
            comp_cadence == looked_up.reporting_cadence
            input == <<reporting_period, submitted_by>>
        IN
        IF ~truthy(strip(reporting_period)) \/ ~truthy(strip(submitted_by))
        THEN /\ raises = "nothing"
             /\ run' = Run("submit_update", input, 0, "st.error")
             /\ pdf' = submit_tab_download(TRUE, "st.error", payload)
             /\ UNCHANGED <<companies, company_updates, uuid_calls>>
        ELSE /\ Cardinality(company_updates) < MaxUpdates
             /\ uuid_calls + 1 <= MaxUuid
             /\ uuid_calls' = uuid_calls + 1
             /\ LET written == submit_update_writes(
                                    payload, looked_up.company_id,
                                    str_date(next_due_from_today(comp_cadence)), raises)
                IN /\ company_updates' = written.company_updates
                   /\ companies' = written.companies
                   /\ run' = Run("submit_update", input, looked_up.company_id,
                                 written.outcome)
                   /\ pdf' = IF written.outcome = "ok"
                             THEN submit_tab_download(FALSE, written.outcome, payload)
                             ELSE submit_tab_download(TRUE, written.outcome, payload)
    /\ UNCHANGED <<session_state, today>>

(***************************************************************************)
(* TAB 4: Dashboard, deletion of one update                                *)
(***************************************************************************)
\* "Delete update": the first click sets the confirmation key
ClickDeleteUpdate(uid) ==
    /\ \E row \in updates_df : row.update_id = uid
    /\ confirm_del_update(uid) \notin session_state
    /\ session_state' = session_state \cup {confirm_del_update(uid)}
    /\ run' = Run("click_delete_update", <<>>, uid, "ok")
    /\ UNCHANGED <<companies, company_updates, today, uuid_calls, pdf>>

\* "Yes"
YesDeleteUpdate(uid, raises) ==
    /\ \E row \in updates_df : row.update_id = uid
    /\ confirm_del_update(uid) \in session_state
    /\ raises \in {"nothing", "first"}
    /\ IF raises = "first"
       THEN /\ run' = Run("yes_delete_update", <<>>, uid, "raised")
            /\ UNCHANGED <<company_updates, session_state>>
       ELSE /\ company_updates' = delete_update(uid)
            /\ session_state' = session_state \ {confirm_del_update(uid)}
            /\ run' = Run("yes_delete_update", <<>>, uid, "ok")
    /\ UNCHANGED <<companies, today, uuid_calls, pdf>>

\* "No"
NoDeleteUpdate(uid) ==
    /\ \E row \in updates_df : row.update_id = uid
    /\ confirm_del_update(uid) \in session_state
    /\ session_state' = session_state \ {confirm_del_update(uid)}
    /\ run' = Run("no_delete_update", <<>>, uid, "ok")
    /\ UNCHANGED <<companies, company_updates, today, uuid_calls, pdf>>

(***************************************************************************)
(* The calendar                                                            *)
(***************************************************************************)
\* date.today() moves to the next day between two script runs
Midnight ==
    /\ today <= MaxDay
    /\ today' = today + 1
    /\ run' = Run("midnight", <<>>, 0, "none")
    /\ UNCHANGED <<companies, company_updates, session_state, uuid_calls, pdf>>

\* a script run in which load_companies or load_updates fails: _supabase_query
\* shows the error and stops the run before any handler
LoadFailed ==
    /\ run' = Run("load", <<>>, 0, "st.stop")
    /\ UNCHANGED <<companies, company_updates, session_state, today, uuid_calls, pdf>>

Ids == 1..MaxUuid

Next ==
    \/ \E typed \in OnboardInputs, cadence \in CadenceChoices, raises \in Raises :
          Onboard(typed.company_name, typed.contact_name, typed.contact_email,
                  cadence, raises)
    \/ \E cid \in Ids : ClickDeleteCompany(cid)
    \/ \E cid \in Ids, raises \in Raises : YesDeleteCompany(cid, raises)
    \/ \E cid \in Ids : CancelDeleteCompany(cid)
    \/ \E selected_company \in {c.company_name : c \in companies},
          typed \in SubmitInputs, form \in UpdateForms, raises \in Raises :
          SubmitUpdate(selected_company, typed.reporting_period, typed.submitted_by,
                       form, raises)
    \/ \E uid \in Ids : ClickDeleteUpdate(uid)
    \/ \E uid \in Ids, raises \in Raises : YesDeleteUpdate(uid, raises)
    \/ \E uid \in Ids : NoDeleteUpdate(uid)
    \/ Midnight
    \/ LoadFailed

Spec == Init /\ [][Next]_vars

SpecProvisioned == InitProvisioned /\ [][Next]_vars

(***************************************************************************)
(* The data layer called directly, with any identifier as argument         *)
(***************************************************************************)
CallAddCompany(typed, cadence) ==
    /\ Cardinality(companies) < MaxCompanies
    /\ uuid_calls + 2 <= MaxUuid
    /\ uuid_calls' = uuid_calls + 2
    /\ companies' = add_company(company_row(uuid4(uuid_calls), uuid4(uuid_calls + 1),
                                            typed.company_name, typed.contact_name,
                                            typed.contact_email, cadence))
    /\ run' = Run("add_company", <<>>, uuid4(uuid_calls + 1), "ok")
    /\ UNCHANGED <<company_updates, session_state, today, pdf>>

CallAddUpdate(c, typed, form) ==
    LET payload == update_payload(uuid4(uuid_calls), c.company_id, c.company_name,
                                  typed.reporting_period, typed.submitted_by, form)
    IN
    /\ Cardinality(company_updates) < MaxUpdates
    /\ uuid_calls + 1 <= MaxUuid
    /\ uuid_calls' = uuid_calls + 1
    /\ company_updates' = add_update(payload)
    /\ run' = Run("add_update", payload, uuid4(uuid_calls), "ok")
    /\ UNCHANGED <<companies, session_state, today, pdf>>

CallUpdateCompanyDueDate(cid, cadence) ==
    /\ companies' = update_company_due_date(cid, str_date(next_due_from_today(cadence)))
    /\ run' = Run("update_company_due_date", <<>>, cid, "ok")
    /\ UNCHANGED <<company_updates, session_state, today, uuid_calls, pdf>>

CallDeleteCompany(cid) ==
    /\ companies' = delete_company(cid)
    /\ company_updates' = on_delete_cascade(cid)
    /\ run' = Run("delete_company", <<>>, cid, "ok")
    /\ UNCHANGED <<session_state, today, uuid_calls, pdf>>

CallDeleteUpdate(uid) ==
    /\ company_updates' = delete_update(uid)
    /\ run' = Run("delete_update", <<>>, uid, "ok")
    /\ UNCHANGED <<companies, session_state, today, uuid_calls, pdf>>

NextDataLayer ==
    \/ \E typed \in OnboardInputs, cadence \in CadenceChoices : CallAddCompany(typed, cadence)
    \/ \E c \in companies, typed \in SubmitInputs, form \in UpdateForms :
          CallAddUpdate(c, typed, form)
    \/ \E cid \in Ids, cadence \in CadenceChoices : CallUpdateCompanyDueDate(cid, cadence)
    \/ \E cid \in Ids : CallDeleteCompany(cid)
    \/ \E uid \in Ids : CallDeleteUpdate(uid)

InitDataLayer ==
    /\ companies = {}
    /\ company_updates = {}
    /\ session_state = {}
    /\ today = 1
    /\ uuid_calls = 0
    /\ run = NoRun
    /\ pdf = NoPdf

SpecDataLayer == InitDataLayer /\ [][NextDataLayer]_vars

(***************************************************************************)
(* PDF export of one update: generate_pdf_bytes and _safe_pdf_slug applied *)
(* to updates whose text fields range over PdfTexts                        *)
(***************************************************************************)
\* the text fields of an update that the document shows
PdfFields ==
    {"company_name", "reporting_period", "submitted_by", "revenue", "expenses",
     "cash", "wins", "challenges", "asks", "investment_update", "narrative",
     "meeting_agenda", "meeting_minutes", "data_warehouse_link"}

\* texts with line ends, tabs and control characters, with nothing but a
\* control character, with a character outside latin-1, and with punctuation
\* and characters outside ASCII
PdfTexts ==
    { <<"a", "\r", "b", "\r", "\n", "\t", "\f", "e">>,
      <<"\f">>,
      <<"Lstroke">>,
      <<"_", "'", "eacute", "nbsp", "x", "_">> }

\* an update with every field filled in plainly, and one with every field empty
PdfPlain ==
    [f \in PdfFields |-> <<"x">>] @@
        [submission_date |-> str_date(1), runway_months |-> 6]

PdfBlank ==
    [f \in PdfFields |-> <<>>] @@
        [submission_date |-> str_date(1), runway_months |-> 0]

\* the number of fields in which an update differs from the plain or from the
\* empty one
varied(update_data) ==
    LET differing(base) == Cardinality({f \in PdfFields : update_data[f] # base[f]})
    IN IF differing(PdfPlain) <= differing(PdfBlank)
       THEN differing(PdfPlain) ELSE differing(PdfBlank)

InitPdf ==
    /\ companies = {}
    /\ company_updates = {}
    /\ session_state = {}
    /\ today = 1
    /\ uuid_calls = 0
    /\ run = NoRun
    /\ \E u \in {PdfPlain, PdfBlank} :
           pdf = [update_data |-> u, outcome |-> "none", doc |-> <<>>, file_name |-> <<>>]

\* one field of the update gets another text
TypeField(field, text) ==
    /\ pdf.outcome = "none"
    /\ varied([pdf.update_data EXCEPT ![field] = text]) <= MaxVaried
    /\ pdf' = [pdf EXCEPT !.update_data[field] = text]
    /\ UNCHANGED <<companies, company_updates, session_state, today, uuid_calls, run>>

\* the PDF report of one update is generated and offered for download
ExportPdf ==
    /\ pdf.outcome = "none"
    /\ pdf' = download_pdf(pdf.update_data)
    /\ run' = Run("export_pdf", <<>>, 0, pdf'.outcome)
    /\ UNCHANGED <<companies, company_updates, session_state, today, uuid_calls>>

NextPdf ==
    \/ \E field \in PdfFields, text \in PdfTexts : TypeField(field, text)
    \/ ExportPdf

SpecPdf == InitPdf /\ [][NextPdf]_vars

(***************************************************************************)
(* Cadence Engine and Due-Status Classifier                                *)
(***************************************************************************)
\* C1: on every day D, next_due(cadence, D) - D is 7 days for "Weekly", 14 for
\* "Biweekly", 30 for "Monthly", 90 for "Quarterly" and 30 for every other
\* cadence value, those of the stored companies included.
C1_CadenceOffsets ==
    \A cadence \in Cadences \cup {"Annual", "weekly", ""}
                   \cup {c.reporting_cadence : c \in companies} :
        next_due_from_today(cadence) - today =
            (IF cadence = "Weekly" THEN 7
             ELSE IF cadence = "Biweekly" THEN 14
             ELSE IF cadence = "Quarterly" THEN 90
             ELSE 30)

\* a company whose cadence is none of the four options got its due date from
\* an update submitted today
C1_Witness ==
    /\ run.handler = "submit_update" /\ run.outcome = "ok"
    /\ \E c \in companies :
        /\ c.reporting_cadence \notin Cadences
        /\ c.next_due_date = str_date(today + 30)
        /\ \E u \in company_updates :
            u.company_id = c.company_id /\ u.submission_date = str_date(today)

\* C2: for every due date D and today T the status is overdue iff D < T,
\* upcoming iff T <= D <= T+7, on-track iff D > T+7 and unknown iff D is
\* absent; exactly one of the four is returned.
C2_DueStatus ==
    \A D \in {None} \cup {<<"date", d>> : d \in (today - 2)..(today + 9)}
             \cup {bucket_due_date(row) : row \in companies_df} :
        LET status == due_status(D, today) IN
        /\ status \in {"overdue", "upcoming", "on-track", "unknown"}
        /\ status = "unknown" <=> D = None
        /\ status = "overdue" <=> (D # None /\ D[2] < today)
        /\ status = "upcoming" <=> (D # None /\ today <= D[2] /\ D[2] <= today + 7)
        /\ status = "on-track" <=> (D # None /\ D[2] > today + 7)

\* one stored company is overdue and another is due in exactly 7 days
C2_Witness ==
    \E r1 \in companies_df, r2 \in companies_df :
        /\ due_status(bucket_due_date(r1), today) = "overdue"
        /\ bucket_due_date(r2) = <<"date", today + 7>>
        /\ due_status(bucket_due_date(r2), today) = "upcoming"

(***************************************************************************)
(* Record lifecycle                                                        *)
(***************************************************************************)
\* C3: a successful Submit Update for company C on day T inserts one update
\* and sets C.next_due_date to T + cadence offset whatever it was before, so a
\* second submission on the same day leaves it at that value.
C3_SubmitSetsDueDate ==
    [][ (run'.handler = "submit_update" /\ run'.outcome = "ok") =>
          /\ Cardinality(company_updates' \ company_updates) = 1
          /\ \A u \in company_updates' \ company_updates :
                \E c \in companies :
                    /\ c.company_id = u.company_id
                    /\ [c EXCEPT !.next_due_date =
                            str_date(today +
                                (IF c.reporting_cadence = "Weekly" THEN 7
                                 ELSE IF c.reporting_cadence = "Biweekly" THEN 14
                                 ELSE IF c.reporting_cadence = "Quarterly" THEN 90
                                 ELSE 30))] \in companies' ]_vars

\* a company has two updates submitted today, the second one just now, and
\* its due date is today + its cadence offset
C3_Witness ==
    /\ run.handler = "submit_update" /\ run.outcome = "ok"
    /\ \E c \in companies, u1 \in company_updates, u2 \in company_updates :
        /\ u1 # u2
        /\ u1.company_id = c.company_id /\ u2.company_id = c.company_id
        /\ u1.submission_date = str_date(today) /\ u2.submission_date = str_date(today)
        /\ c.reporting_cadence = "Weekly"
        /\ c.next_due_date = str_date(today + 7)

\* C4: the confirmed deletion of company C removes C and every update whose
\* company_id is C's, and removes or changes no other company or update.
C4_DeleteCompanyCascade ==
    [][ (run'.handler = "yes_delete_company" /\ run'.outcome = "ok") =>
          /\ \E c \in companies : c.company_id = run'.arg
          /\ companies' = {c \in companies : c.company_id # run'.arg}
          /\ company_updates' = {u \in company_updates : u.company_id # run'.arg} ]_vars

\* a company was just deleted and another company and its update remain
C4_Witness ==
    /\ run.handler = "yes_delete_company" /\ run.outcome = "ok"
    /\ \E c \in companies, u \in company_updates : u.company_id = c.company_id

\* C5: Onboard Company with a blank company name, contact name or contact
\* email, and Submit Update with a blank reporting period or submitted-by,
\* leave both tables as they were and show an error message.
C5_ValidationNoMutation ==
    [][ ( /\ run'.handler \in {"onboard", "submit_update"}
          /\ \E k \in DOMAIN run'.input :
                \A i \in DOMAIN run'.input[k] : run'.input[k][i] \in Whitespace )
        => ( /\ companies' = companies
             /\ company_updates' = company_updates
             /\ run'.outcome = "st.error" ) ]_vars

\* an update with a blank required field was rejected while the store holds a
\* company and an update
C5_Witness ==
    /\ run.handler = "submit_update" /\ run.outcome = "st.error"
    /\ companies # {}
    /\ company_updates # {}

\* C6: delete_update with an update_id that no stored update has raises no
\* error and leaves both tables unchanged; with the update_id of a stored
\* update it removes that one update and nothing else.
C6_DeleteUpdateNoOp ==
    [][ run'.handler = "delete_update" =>
          /\ run'.outcome = "ok"
          /\ companies' = companies
          /\ company_updates' \subseteq company_updates
          /\ \A u \in company_updates :
                u \in company_updates' <=> u.update_id # run'.arg
          /\ Cardinality(company_updates') =
                IF \E u \in company_updates : u.update_id = run'.arg
                THEN Cardinality(company_updates) - 1
                ELSE Cardinality(company_updates) ]_vars

\* delete_update was called with an identifier that uuid4 has not returned
\* yet, so that no update ever had it, and the stored updates are still there
C6_Witness ==
    /\ run.handler = "delete_update"
    /\ run.outcome = "ok"
    /\ run.arg > uuid_calls
    /\ Cardinality(company_updates) = 2
    /\ companies # {}

\* C7: no operation changes a stored update: from one state to the next every
\* update is either still stored with all its field values or gone, and it
\* is gone only through the confirmed deletion of that update or of its
\* company.
C7_UpdatesAppendOnly ==
    [][ \A u \in company_updates :
            \/ u \in company_updates'
            \/ /\ \A v \in company_updates' : v.update_id # u.update_id
               /\ run'.outcome = "ok"
               /\ \/ run'.handler = "yes_delete_update" /\ run'.arg = u.update_id
                  \/ run'.handler = "yes_delete_company" /\ run'.arg = u.company_id ]_vars

\* an update of an earlier day is still stored after another update was
\* deleted
C7_Witness ==
    /\ run.handler = "yes_delete_update"
    /\ run.outcome = "ok"
    /\ \E u \in company_updates : u.submission_date = str_date(today - 1)

\* C8: no two companies share a company_id and no two updates share an
\* update_id, and a create operation adds its row without removing or
\* changing a stored row of that kind.
C8_FreshIdentifiers ==
    /\ [](/\ \A a \in companies, b \in companies : a.company_id = b.company_id => a = b
          /\ \A a \in company_updates, b \in company_updates :
                a.update_id = b.update_id => a = b)
    /\ [][ /\ (run'.handler = "onboard" /\ run'.outcome = "ok") =>
                /\ companies \subseteq companies'
                /\ Cardinality(companies') = Cardinality(companies) + 1
                /\ company_updates' = company_updates
           /\ (run'.handler = "submit_update" /\ run'.outcome = "ok") =>
                /\ company_updates \subseteq company_updates'
                /\ Cardinality(company_updates') = Cardinality(company_updates) + 1 ]_vars

\* a second company was just onboarded next to a company that has an update
C8_Witness ==
    /\ run.handler = "onboard"
    /\ run.outcome = "ok"
    /\ Cardinality({c.company_id : c \in companies}) = 2
    /\ company_updates # {}

(***************************************************************************)
(* Views of the due dates                                                  *)
(***************************************************************************)
\* C9: the "Overdue" count of the sidebar and of the "Updates Overdue" metric
\* equals the number of companies that _due_status classifies as overdue, the
\* "Overdue" count of the Reminders tab; a company due today is counted as
\* overdue nowhere.
C9_OverdueCountsAgree ==
    /\ overdue_count = Cardinality(overdue_list)
    /\ \A row \in companies_df :
          row.next_due_date = <<"ts", today>> =>
              overdue_count = Cardinality({r \in companies_df :
                                              notna(r.next_due_date)
                                              /\ r.next_due_date[2] < today})

\* C10: a company whose next_due_date is null or no date is in none of the
\* Overdue, Due Soon and On Track buckets of the Reminders tab and its row is
\* labelled "No Date".
C10_AbsentDueDateUnknown ==
    \A row \in companies_df :
        ~notna(row.next_due_date) =>
            /\ row \notin overdue_list
            /\ row \notin upcoming_list
            /\ row \notin on_track_list
            /\ status_label(row) = "No Date"

(***************************************************************************)
(* PDF generation                                                          *)
(***************************************************************************)
\* the cells of the document that show a free-text field of the update
free_text_cells ==
    {i \in 1..Len(pdf.doc) : pdf.doc[i].kind = "value" /\ pdf.doc[i].field \in PdfFields}

\* C11: every free-text field that generate_pdf_bytes lays out is normalized
\* first: the text of its cell holds no carriage return, no tab and no
\* character below code point 32 other than the newline, and the normalized
\* text of a field is never empty ("-" when nothing remains).
C11_FreeTextNormalized ==
    pdf.outcome = "returned" =>
        /\ \A i \in free_text_cells :
              \A j \in 1..Len(pdf.doc[i].text) :
                  LET ch == pdf.doc[i].text[j]
                  IN /\ ch \notin {"\r", "\t"}
                     /\ ch = "\n" \/ ord(ch) >= 32
        /\ \A f \in PdfFields : normalize_pdf_text(pdf.update_data[f]) # <<>>

\* the fields that generate_pdf_bytes lays out with _text_block
NarrativeFields ==
    {"wins", "challenges", "asks", "investment_update", "narrative",
     "meeting_agenda", "meeting_minutes"}

\* the fields of the title block and the KPI values
TitleFields == {"company_name", "reporting_period", "submitted_by"}
KpiFields == {"revenue", "expenses", "cash"}

\* the values that the document shows for a field
shown(field) ==
    {pdf.doc[i].text : i \in {j \in 1..Len(pdf.doc) :
                                 pdf.doc[j].field = field /\ pdf.doc[j].kind = "value"}}

C13_EncodingNeverRaises ==
    pdf.outcome # "none" =>
        /\ pdf.outcome = "returned"
        /\ \A f \in PdfFields :
              ~can_encode(pdf.update_data[f]) =>
                  \E text \in shown(f) :
                      \E i \in 1..Len(text) : text[i] = "?"

\* the order of the fields in the document
FieldOrder ==
    <<"company_name", "reporting_period", "submission_date", "submitted_by",
      "revenue", "expenses", "cash", "runway_months", "wins", "challenges", "asks",
      "investment_update", "narrative", "meeting_agenda", "meeting_minutes",
      "data_warehouse_link">>

position(field) == CHOOSE k \in 1..Len(FieldOrder) : FieldOrder[k] = field

\* the cells of the document that belong to a field, label or value
field_cells == {i \in 1..Len(pdf.doc) : pdf.doc[i].kind \in {"label", "value"}}

slug_safe(ch) == ascii_alnum(ch) \/ ch \in {"_", "-"}

\* C15: for every company name the slug of the export is a non-empty string
\* of characters of [A-Za-z0-9_-] only, it is the name with every character
\* outside that set replaced by "_" and the underscores at both ends removed,
\* or "company" when nothing remains, and the file is named
\* update_<slug>_<date>.pdf.
C15_SlugSafe ==
    pdf.outcome # "none" =>
        LET raw == pdf.update_data.company_name
            slug == pdf.file_name[2]
            replaced == [i \in 1..Len(raw) |-> IF slug_safe(raw[i]) THEN raw[i] ELSE "_"]
        IN /\ slug # <<>>
           /\ \A i \in 1..Len(slug) : slug_safe(slug[i])
           /\ slug[1] # "_" /\ slug[Len(slug)] # "_"
           /\ slug = IF strip_underscores(replaced) = <<>>
                     THEN <<"c", "o", "m", "p", "a", "n", "y">>
                     ELSE strip_underscores(replaced)
           /\ pdf.file_name = <<"update_", slug, "_", str_date(today), ".pdf">>

(***************************************************************************)
(* Store of the updates                                                    *)
(***************************************************************************)
\* a row read from the store holds what was written: every field is equal,
\* the submission date being the timestamp of the day written
read_as_written(row, written) ==
    /\ DOMAIN row = DOMAIN written
    /\ \A f \in DOMAIN written \ {"submission_date"} : row[f] = written[f]
    /\ written.submission_date = str_date(row.submission_date[2])
    /\ notna(row.submission_date)

C17_CompanyFieldsImmutable ==
    [][ /\ \A c \in companies : \A d \in companies' :
              d.company_id = c.company_id => d = [c EXCEPT !.next_due_date = d.next_due_date]
        /\ run'.handler = "update_company_due_date" =>
              /\ company_updates' = company_updates
              /\ Cardinality(companies') = Cardinality(companies)
              /\ \A c \in companies : c.company_id # run'.arg => c \in companies'
        /\ run'.handler \notin {"update_company_due_date", "delete_company"} =>
              companies \subseteq companies' ]_vars

C17_Witness ==
    /\ run.handler = "update_company_due_date"
    /\ \E c \in companies, d \in companies :
          /\ c.company_id = run.arg
          /\ d.company_id # run.arg
          /\ c.reporting_cadence = "Weekly"
          /\ c.next_due_date = str_date(today + 30)
          /\ d.reporting_cadence = "Weekly"
          /\ d.next_due_date = str_date(today + 7)

(***************************************************************************)
(* Store failures                                                          *)
(***************************************************************************)
\* C18: a store failure ends the run: the failed operation is not done again
\* and no later store operation of the run is executed, so a run that failed
\* leaves both tables as they were, except that Submit Update keeps the update
\* it inserted before update_company_due_date failed; when the insert of the
\* update fails no next_due_date changes.
C18_StoreFailureFatal ==
    [][ run'.outcome \in {"raised", "st.stop"} =>
          /\ companies' = companies
          /\ session_state' = session_state
          /\ \/ company_updates' = company_updates
             \/ /\ run'.handler = "submit_update"
                /\ \E u \in company_updates' :
                      /\ u \notin company_updates
                      /\ u.company_id = run'.arg
                      /\ company_updates' = company_updates \cup {u} ]_vars

C18_Witness ==
    /\ run.handler = "submit_update"
    /\ run.outcome = "raised"
    /\ company_updates = {}
    /\ today = 2
    /\ \E c \in companies :
          /\ c.company_id = run.arg
          /\ c.reporting_cadence = "Weekly"
          /\ c.next_due_date = str_date(8)

(***************************************************************************)
(* Updates and their companies                                             *)
(***************************************************************************)
\* C19: every stored update carries the company_id of exactly one stored
\* company, and that company's company_name is the update's company_name.
C19_ReferentialIntegrity ==
    \A u \in company_updates :
        /\ Cardinality({c \in companies : c.company_id = u.company_id}) = 1
        /\ \A c \in companies :
              c.company_id = u.company_id => c.company_name = u.company_name

C19_Witness ==
    /\ run.handler = "submit_update"
    /\ run.outcome = "ok"
    /\ \E c \in companies, d \in companies, u \in company_updates :
          /\ c.company_id # d.company_id
          /\ c.company_name = d.company_name
          /\ u.company_id = c.company_id
          /\ u.company_name = c.company_name

(***************************************************************************)
(* Due dates                                                               *)
(***************************************************************************)
\* C20: every stored company has a next_due_date that is a date, equal to
\* E + cadence_to_delta(reporting_cadence), E being the day of the last
\* successful Submit Update for the company or else the day it was onboarded:
\* onboarding and a successful submission set it to today + delta, and no
\* other run, the deletion of an update included, changes it.
C20_DueDateFollowsLastSubmission ==
    /\ [](\A c \in companies : c.next_due_date[1] = "iso")
    /\ [][ \A d \in companies' :
             IF /\ run'.handler \in {"onboard", "submit_update"}
                /\ run'.outcome = "ok"
                /\ d.company_id = run'.arg
             THEN d.next_due_date = str_date(today' + cadence_to_delta(d.reporting_cadence))
             ELSE \E c \in companies :
                     /\ c.company_id = d.company_id
                     /\ d.next_due_date = c.next_due_date ]_vars

C20_Witness ==
    /\ run.handler = "yes_delete_update"
    /\ run.outcome = "ok"
    /\ company_updates = {}
    /\ today = 2
    /\ \E c \in companies :
          /\ c.reporting_cadence = "Weekly"
          /\ c.next_due_date = str_date(9)

(***************************************************************************)
(* Submit Update and its two writes                                        *)
(***************************************************************************)
\* C21: Submit Update is all-or-nothing: when the run has ended, normally or
\* by a store failure, either the update was inserted and the company's
\* next_due_date is the submission date + cadence offset, or no update was
\* inserted and no next_due_date changed; never an inserted update with the
\* due date left at its old value.
C21_SubmitAllOrNothing ==
    [][ run'.handler = "submit_update" =>
          IF company_updates' # company_updates
          THEN \A c \in companies' :
                   c.company_id = run'.arg =>
                       c.next_due_date =
                           str_date(today' + cadence_to_delta(c.reporting_cadence))
          ELSE companies' = companies ]_vars

(***************************************************************************)
(* Deletion and its confirmation                                           *)
(***************************************************************************)
\* the ids of the stored companies, and of the updates whose company is
\* stored after the step
company_ids(rows) == {c.company_id : c \in rows}
update_ids(rows) == {u.update_id : u \in rows}

\* C22: deletion takes two steps.  A company (an update) leaves the store
\* only in a run of "Yes" for its id that finds the confirmation key of that
\* id set, and that run clears the key; the first "Delete" click only sets
\* the key of its id and deletes nothing; "Cancel" / "No" clears the key and
\* deletes nothing; and a key is set by nothing but a first click.
C22_TwoStepDeletion ==
    [][ /\ company_ids(companies) \ company_ids(companies') # {} =>
              /\ run'.handler = "yes_delete_company"
              /\ company_ids(companies) \ company_ids(companies') = {run'.arg}
              /\ confirm_del_company(run'.arg) \in session_state
              /\ confirm_del_company(run'.arg) \notin session_state'
        /\ update_ids(company_updates) \ update_ids(company_updates') # {} =>
              \/ /\ run'.handler = "yes_delete_update"
                 /\ update_ids(company_updates) \ update_ids(company_updates')
                        = {run'.arg}
                 /\ confirm_del_update(run'.arg) \in session_state
                 /\ confirm_del_update(run'.arg) \notin session_state'
              \/ /\ run'.handler = "yes_delete_company"
                 /\ \A u \in company_updates :
                       u.update_id \notin update_ids(company_updates')
                           => u.company_id = run'.arg
        /\ run'.handler \in {"click_delete_company", "click_delete_update"} =>
              /\ companies' = companies
              /\ company_updates' = company_updates
              /\ \E key \in session_state' :
                    /\ key[2] = run'.arg
                    /\ key \notin session_state
                    /\ session_state' = session_state \cup {key}
        /\ run'.handler \in {"cancel_delete_company", "no_delete_update"} =>
              /\ companies' = companies
              /\ company_updates' = company_updates
              /\ \E key \in session_state :
                    /\ key[2] = run'.arg
                    /\ session_state' = session_state \ {key}
        /\ session_state' \ session_state # {} =>
              run'.handler \in {"click_delete_company", "click_delete_update"} ]_vars

C22_Witness ==
    /\ run.handler = "yes_delete_company"
    /\ run.outcome = "ok"
    /\ confirm_del_company(run.arg) \notin session_state
    /\ \E c \in companies : confirm_del_company(c.company_id) \in session_state

(***************************************************************************)
(* Download of the report after Submit Update                              *)
(***************************************************************************)
\* C23: when a successful "Save Update & Generate PDF" run has finished, its
\* rerun included, the page offers the PDF generated from the submitted
\* payload for download.
C23_DownloadOfferedAfterSubmit ==
    (run.handler = "submit_update" /\ run.outcome = "ok") =>
        /\ pdf.outcome = "returned"
        /\ \E u \in company_updates :
              /\ u.update_id = uuid4(uuid_calls - 1)
              /\ pdf.update_data = u

====
